---- MODULE Spec2Model ----
(***************************************************************************)
(* Screen checker: localisation of a screen in a photo (find_screen),      *)
(* colour-deviation scoring of the rectified screen (check_screen) and     *)
(* the seven-segment OCR pre-processing (ocr_ssd).                         *)
(*                                                                         *)
(* The OpenCV / imutils / colour / tesseract primitives are collaborators: *)
(* what cv2.findContours, cv2.approxPolyDP, four_point_transform and       *)
(* image_to_string hand back is an input of the call, drawn from bounded   *)
(* sets.  Everything the repository's own code does with those values      *)
(* (filtering, selection, slicing, thresholding, cropping, bordering,      *)
(* raising) is computed here the way the code computes it.                 *)
(***************************************************************************)
EXTENDS Integers, Sequences, FiniteSets, TLC

VARIABLES pc, op, fs, cs, ocr

vars == <<pc, op, fs, cs, ocr>>

(***************************************************************************)
(* Bounds of the model.                                                    *)
(***************************************************************************)
\* longest list of contours cv2.findContours hands back
MaxContours == 2
\* largest contour area (px^2); areas run from MinArea to MaxArea
MaxArea == 6
\* largest side of a rectified image handed to check_screen
MaxDim == 34
\* most defect pixels (pixels differing from the background) in such an image
MaxDefects == 1
\* largest side of a rectified image handed to ocr_ssd
MaxOcrDim == 3
\* most pixels differing from the background in such an image
MaxStrokes == 2

(***************************************************************************)
(* Program constants.                                                      *)
(***************************************************************************)
\* contours = tuple(filter(lambda c: cv2.contourArea(c) > 4, contours))
NoiseFloor == 4
\* cropped = warped[16:-16, 16:-16]
Margin == 16
\* border_width = 10
border_width == 10
\* cropped.astype(np.float32) / 255; 8-bit full scale
FullScale == 255

(***************************************************************************)
(* Python values.                                                          *)
(***************************************************************************)
\* An optional value is a sequence of zero or one element.
None == <<>>

Some(x) == <<x>>

Min2(a, b) == IF a < b THEN a ELSE b

Max2(a, b) == IF a < b THEN b ELSE a

Abs(a) == IF a < 0 THEN -a ELSE a

\* The range a Python slice s[a:b] selects from a sequence of length n
\* (0-based, half open): negative indices count from the end and both ends
\* are clipped to 0..n.
PySliceLo(n, a) == IF a < 0 THEN Max2(n + a, 0) ELSE Min2(a, n)

PySliceHi(n, b) == IF b < 0 THEN Max2(n + b, 0) ELSE Min2(b, n)

(***************************************************************************)
(* Colours.                                                                *)
(***************************************************************************)
Color == {"BLUE", "GREEN", "RED", "WHITE", "BLACK"}

\* Color.value: the channel index of BLUE, GREEN, RED in a BGR pixel
ColorValue(color) ==
    CASE color = "BLUE" -> 0
      [] color = "GREEN" -> 1
      [] color = "RED" -> 2
      [] color = "WHITE" -> 3
      [] color = "BLACK" -> 4

\* _color2bgr of screen_checker.py: normalised reference triples
color2bgr(color) ==
    CASE color = "BLUE" -> <<1, 0, 0>>
      [] color = "GREEN" -> <<0, 1, 0>>
      [] color = "RED" -> <<0, 0, 1>>
      [] color = "WHITE" -> <<1, 1, 1>>
      [] color = "BLACK" -> <<0, 0, 0>>

\* color2bgr of main.py: 8-bit reference triples
main_color2bgr(color) ==
    CASE color = "BLUE" -> <<255, 0, 0>>
      [] color = "GREEN" -> <<0, 255, 0>>
      [] color = "RED" -> <<0, 0, 255>>
      [] color = "WHITE" -> <<255, 255, 255>>
      [] color = "BLACK" -> <<0, 0, 0>>

(***************************************************************************)
(* Contours.  A contour carries what the geometry primitives report for    *)
(* it: cv2.contourArea and the polygon cv2.approxPolyDP reduces it to      *)
(* with the tolerance 0.01 * cv2.arcLength.                                *)
(***************************************************************************)
\* contour areas straddle the noise floor
MinArea == NoiseFloor - 1

Polygons ==
    { << <<0, 0>>, <<4, 0>>, <<0, 4>> >>,
      << <<0, 0>>, <<4, 0>>, <<4, 3>>, <<0, 3>> >>,
      << <<5, 5>>, <<9, 6>>, <<8, 9>>, <<5, 8>> >>,
      << <<1, 0>>, <<3, 0>>, <<4, 2>>, <<2, 4>>, <<0, 2>> >> }

Contour == [area : MinArea..MaxArea, poly : Polygons]

ContourLists == UNION { [1..n -> Contour] : n \in 0..MaxContours }

contourArea(c) == c.area

approxPolyDP(c) == c.poly

\* the first contour, whatever its area
PyFirst(contours) == contours[1]

\* Python's max(seq, key=cv2.contourArea) on a non-empty sequence: the first
\* element whose key no other element exceeds.
PyMaxByArea(contours) ==
    LET i == CHOOSE k \in 1..Len(contours) :
                 /\ \A j \in 1..Len(contours) :
                        contourArea(contours[j]) <= contourArea(contours[k])
                 /\ \A j \in 1..(k - 1) :
                        contourArea(contours[j]) < contourArea(contours[k])
    IN contours[i]

\* the filter with >= for >
FilterNoiseInclusive(contours) ==
    SelectSeq(contours, LAMBDA c : contourArea(c) >= NoiseFloor)

\* contours = tuple(filter(lambda c: cv2.contourArea(c) > 4, contours))
FilterNoise(contours) ==
    SelectSeq(contours, LAMBDA c : contourArea(c) > NoiseFloor)

(***************************************************************************)
(* find_screen.  The value is the frame of the call when it ends: the      *)
(* arguments, the locals assigned so far, the source line it ended at,     *)
(* and either the error raised or the value returned.                      *)
(*   found    the contours cv2.findContours extracts from the Otsu binary  *)
(*            of the channel the colour selects                            *)
(***************************************************************************)
NoFrame ==
    [color |-> "", strict |-> FALSE, found |-> <<>>, gray |-> "",
     contours |-> None, screen_contour |-> None, approx |-> None,
     line |-> 0, raised |-> "", ret |-> None]

\* gray = cv2.cvtColor(photo, cv2.COLOR_BGR2GRAY) for WHITE, else the
\* colour's own channel photo[..., color.value]; a BGR photo has the
\* channels 0, 1, 2 and indexing another one is an IndexError
SegmentationChannel(color) ==
    IF color = "WHITE" THEN "GRAY"
    ELSE CASE ColorValue(color) = 0 -> "B"
           [] ColorValue(color) = 1 -> "G"
           [] ColorValue(color) = 2 -> "R"
           [] OTHER -> "IndexError"

\* Select with its tests in another order: the quadrilateral test first, the
\* strict-mode test last
SelectStrictLast(f1) ==
    LET contours == f1.contours[1]
    IN
    IF contours = <<>>
    THEN [f1 EXCEPT !.line = 67, !.raised = "EmptySequenceError"]
    ELSE
    LET screen_contour == PyMaxByArea(contours)
        approx == approxPolyDP(screen_contour)
        f2 == [f1 EXCEPT !.screen_contour = Some(screen_contour),
                         !.approx = Some(approx)]
    IN
    IF Len(approx) # 4
    THEN [f2 EXCEPT !.line = 85, !.raised = "ScreenNotFoundError"]
    ELSE IF f1.strict /\ Len(contours) > 1
    THEN [f2 EXCEPT !.line = 64, !.raised = "MultipleContoursError"]
    ELSE [f2 EXCEPT !.line = 87, !.ret = Some(approx)]

\* find_screen from the strict-mode check on (lines 62 to 87), given the
\* frame f1 that holds the filtered contours
Select(f1) ==
    LET contours == f1.contours[1]
    IN
    IF f1.strict /\ Len(contours) > 1
    THEN [f1 EXCEPT !.line = 64, !.raised = "MultipleContoursError"]
    ELSE IF contours = <<>>
    \* max() of an empty tuple: ValueError("max() arg is an empty sequence")
    THEN [f1 EXCEPT !.line = 67, !.raised = "EmptySequenceError"]
    ELSE
    LET screen_contour == PyMaxByArea(contours)
        approx == approxPolyDP(screen_contour)
        f2 == [f1 EXCEPT !.screen_contour = Some(screen_contour),
                         !.approx = Some(approx)]
    IN
    IF Len(approx) # 4
    THEN [f2 EXCEPT !.line = 85, !.raised = "ScreenNotFoundError"]
    ELSE [f2 EXCEPT !.line = 87, !.ret = Some(approx)]

\* find_screen after the colour check (lines 49 to 87)
Locate(found, color, strict) ==
    LET f0 == [NoFrame EXCEPT !.color = color, !.strict = strict,
                              !.found = found,
                              !.gray = SegmentationChannel(color)]
    IN
    IF f0.gray = "IndexError"
    THEN [f0 EXCEPT !.line = 53, !.raised = "IndexError"]
    ELSE Select([f0 EXCEPT !.contours = Some(FilterNoise(found))])

\* find_screen without its colour check
find_screen_unchecked(found, color, strict) == Locate(found, color, strict)

find_screen(found, color, strict) ==
    IF color = "BLACK"
    THEN [NoFrame EXCEPT !.color = color, !.strict = strict, !.found = found,
                         !.line = 47, !.raised = "InvalidColorError"]
    ELSE Locate(found, color, strict)

\* find_screen of main.py: no strict mode and no noise filter
main_find_screen(found, color) ==
    LET f0 == [NoFrame EXCEPT !.color = color, !.found = found]
    IN
    IF color = "BLACK"
    THEN [f0 EXCEPT !.line = 41, !.raised = "InvalidColorError"]
    ELSE
    LET f1 == [f0 EXCEPT !.gray = SegmentationChannel(color),
                         !.contours = Some(found)]
    IN
    IF found = <<>>
    THEN [f1 EXCEPT !.line = 56, !.raised = "EmptySequenceError"]
    ELSE
    LET screen_contour == PyMaxByArea(found)
        approx == approxPolyDP(screen_contour)
        f2 == [f1 EXCEPT !.screen_contour = Some(screen_contour),
                         !.approx = Some(approx)]
    IN
    IF Len(approx) # 4
    THEN [f2 EXCEPT !.line = 76, !.raised = "ScreenNotFoundError"]
    ELSE [f2 EXCEPT !.line = 78, !.ret = Some(approx)]

(***************************************************************************)
(* Images.  An image is its width, its height, a background pixel and the  *)
(* finitely many pixels (spots) given one by one;    a pixel is a BGR      *)
(* triple of 8-bit channels.  An image with w = 0 or h = 0 is empty.       *)
(***************************************************************************)
\* pixels of the rectified screen: black, dim red and white
Pixels == { <<0, 0, 0>>, <<0, 0, 128>>, <<255, 255, 255>> }

EmptyImage == [w |-> 0, h |-> 0, bg |-> <<0, 0, 0>>, spots |-> {}]

IsEmpty(img) == img.w = 0 \/ img.h = 0

Coords(img) == (0..(img.w - 1)) \X (0..(img.h - 1))

\* img[y, x]
pix(img, x, y) ==
    IF \E s \in img.spots : s.x = x /\ s.y = y
    THEN (CHOOSE s \in img.spots : s.x = x /\ s.y = y).v
    ELSE img.bg

\* the sets of at most n spots with distinct positions
RECURSIVE SpotSets(_, _)
SpotSets(Spot, n) ==
    IF n = 0 THEN {{}}
    ELSE LET Fewer == SpotSets(Spot, n - 1)
         IN Fewer \cup
            UNION { { S \cup {s} :
                        s \in { t \in Spot :
                                  \A u \in S : u.x # t.x \/ u.y # t.y } } :
                    S \in Fewer }

\* the images of size w x h with at most n spots, at positions in xs \X ys
ImagesOf(w, h, xs, ys, n) ==
    { [w |-> w, h |-> h, bg |-> b, spots |-> S] :
          b \in Pixels,
          S \in SpotSets([x : xs, y : ys, v : Pixels], n) }

\* img[rlo:rhi, clo:chi] with Python's slice rules (rows first)
Slice(img, rlo, rhi, clo, chi) ==
    LET r0 == PySliceLo(img.h, rlo)
        r1 == PySliceHi(img.h, rhi)
        c0 == PySliceLo(img.w, clo)
        c1 == PySliceHi(img.w, chi)
    IN [w |-> Max2(c1 - c0, 0),
        h |-> Max2(r1 - r0, 0),
        bg |-> img.bg,
        spots |-> { [x |-> s.x - c0, y |-> s.y - r0, v |-> s.v] :
                      s \in { t \in img.spots :
                                /\ c0 <= t.x /\ t.x < c1
                                /\ r0 <= t.y /\ t.y < r1 } }]

SetMax(S) == CHOOSE m \in S : \A k \in S : k <= m

(***************************************************************************)
(* check_screen.                                                           *)
(***************************************************************************)
\* Sides of the rectified images: too short for both margins, exactly both
\* margins, and a few pixels more.
ScoreDims == {Margin - 13, 2 * Margin} \cup ((2 * Margin + 1)..MaxDim)

\* Defect pixels sit next to the edges of the margin.
DefectCoords(n) ==
    {Margin - 1, Margin, n - Margin - 1, n - Margin} \cap (0..(n - 1))

ScoreImages ==
    UNION { ImagesOf(w, h, DefectCoords(w), DefectCoords(h), MaxDefects) :
              w \in ScoreDims, h \in ScoreDims }

\* a margin one pixel narrower: warped[15:-15, 15:-15]
TrimMarginNarrow(warped) ==
    Slice(warped, Margin - 1, -(Margin - 1), Margin - 1, -(Margin - 1))

\* cropped = warped[16:-16, 16:-16]
TrimMargin(warped) == Slice(warped, Margin, -Margin, Margin, -Margin)

\* colour.delta_E between the Lab values of a pixel and of the reference
\* colour, both given as BGR triples on the 8-bit scale.  The formula is the
\* colour-science collaborator's; its stand-in is the city-block distance,
\* which like every delta_E is 0 on equal colours and positive otherwise.
delta_E(bgr, expected) ==
    Abs(bgr[1] - expected[1]) + Abs(bgr[2] - expected[2])
        + Abs(bgr[3] - expected[3])

\* the reference triple on the scale of the pixels: the pixels are divided
\* by 255 and compared with _color2bgr; here both sides are kept times 255
Expected(color) ==
    LET c == color2bgr(color)
    IN <<FullScale * c[1], FullScale * c[2], FullScale * c[3]>>

NoScore ==
    [color |-> "", warped |-> EmptyImage, cropped |-> EmptyImage,
     bgr |-> EmptyImage, line |-> 0, raised |-> "", ret |-> None]

check_screen(warped, color) ==
    LET cropped == TrimMargin(warped)
        f0 == [NoScore EXCEPT !.color = color, !.warped = warped,
                              !.cropped = cropped]
    IN
    IF IsEmpty(cropped)
    \* cv2.cvtColor asserts !_src.empty()
    THEN [f0 EXCEPT !.line = 144, !.raised = "cv2.error"]
    ELSE
    LET delta_e == { delta_E(pix(cropped, p[1], p[2]), Expected(color)) :
                       p \in Coords(cropped) }
    IN [f0 EXCEPT !.bgr = cropped, !.line = 160,
                  !.ret = Some(SetMax(delta_e))]

\* HSV round trip of main.py: the value channel V = max(B, G, R) is raised
\* by d and the pixel keeps its hue and saturation, i.e. its channels keep
\* their proportions; a black pixel (V = 0) has saturation 0 and becomes
\* the gray of value d.  (8-bit rounding of H and S is left out; the pixels
\* of the model scale exactly.)
Brighten(p, d) ==
    LET v == Max2(p[1], Max2(p[2], p[3]))
    IN IF v = 0 THEN <<d, d, d>>
       ELSE << (p[1] * (v + d)) \div v, (p[2] * (v + d)) \div v,
               (p[3] * (v + d)) \div v >>

\* hsv[:, :, 2] += 255 - np.max(hsv[:, :, 2])
IncreaseBrightness(cropped) ==
    LET V == { Max2(q[1], Max2(q[2], q[3])) :
                 q \in { pix(cropped, p[1], p[2]) : p \in Coords(cropped) } }
        d == FullScale - SetMax(V)
    IN [cropped EXCEPT
          !.bg = Brighten(cropped.bg, d),
          !.spots = { [s EXCEPT !.v = Brighten(s.v, d)] : s \in cropped.spots }]

\* check_screen of main.py
main_check_screen(warped, color) ==
    LET cropped == TrimMargin(warped)
        f0 == [NoScore EXCEPT !.color = color, !.warped = warped,
                              !.cropped = cropped]
    IN
    IF IsEmpty(cropped)
    THEN [f0 EXCEPT !.line = (IF color # "BLACK" THEN 97 ELSE 102),
                    !.raised = "cv2.error"]
    ELSE
    LET bgr == IF color # "BLACK" THEN IncreaseBrightness(cropped)
               ELSE cropped
        delta_e == { delta_E(pix(bgr, p[1], p[2]), main_color2bgr(color)) :
                       p \in Coords(bgr) }
    IN [f0 EXCEPT !.bgr = bgr, !.line = 119, !.ret = Some(SetMax(delta_e))]

(***************************************************************************)
(* ocr_ssd.                                                                *)
(***************************************************************************)
OcrDims == 1..MaxOcrDim

\* pixels of the rectified display: dark, dim and lit
OcrPixels == { <<0, 0, 0>>, <<128, 128, 128>>, <<255, 255, 255>> }

\* a display is a background with strokes of one colour
OcrImages ==
    UNION { { [w |-> w, h |-> h, bg |-> b,
               spots |-> { [x |-> q[1], y |-> q[2], v |-> f] : q \in Q }] :
                  b \in OcrPixels, f \in OcrPixels,
                  Q \in { R \in SUBSET ((0..(w - 1)) \X (0..(h - 1))) :
                            Cardinality(R) <= MaxStrokes } } :
            w \in OcrDims, h \in OcrDims }

\* cv2.COLOR_BGR2GRAY on an 8-bit pixel: fixed-point luma, rounded
BGR2GRAY(p) == (p[1] * 1868 + p[2] * 9617 + p[3] * 4899 + 8192) \div 16384

\* cv2.cvtColor(img, cv2.COLOR_BGR2GRAY)
cvtColorGray(img) ==
    [img EXCEPT !.bg = BGR2GRAY(img.bg),
                !.spots = { [s EXCEPT !.v = BGR2GRAY(s.v)] : s \in img.spots }]

\* THRESH_BINARY with maxval 255: 255 above the threshold, else 0
Binary(v, t) == IF v > t THEN FullScale ELSE 0

RECURSIVE SumOver(_, _)
SumOver(f, S) ==
    IF S = {} THEN 0
    ELSE LET x == CHOOSE y \in S : TRUE
         IN f[x] + SumOver(f, S \ {x})

\* a / b < c / d for a, c >= 0 and b, d > 0, without forming the products
RECURSIVE FracLess(_, _, _, _)
FracLess(a, b, c, d) ==
    IF a \div b # c \div d THEN a \div b < c \div d
    ELSE IF c % d = 0 THEN FALSE
    ELSE IF a % b = 0 THEN TRUE
    ELSE FracLess(d, c % d, b, a % b)

\* the histogram of a gray image, over the levels present in it
Histogram(gray) ==
    LET P == Coords(gray)
        L == { pix(gray, p[1], p[2]) : p \in P }
    IN [v \in L |-> Cardinality({ p \in P : pix(gray, p[1], p[2]) = v })]

\* number and sum of the pixels whose level is in S
ClassCount(hist, S) == SumOver(hist, S)

ClassSum(hist, S) == SumOver([v \in DOMAIN hist |-> v * hist[v]], S)

\* The between-class variance q1 * q2 * (mu1 - mu2)^2 of the split
\* {<= i} / {> i}, times the squared number of pixels, as a fraction:
\* (s1 * n2 - s2 * n1)^2 / (n1 * n2).
SigmaNum(hist, i) ==
    LET lo == { v \in DOMAIN hist : v <= i }
        hi == { v \in DOMAIN hist : v > i }
        a == ClassSum(hist, lo) * ClassCount(hist, hi)
                 - ClassSum(hist, hi) * ClassCount(hist, lo)
    IN a * a

SigmaDen(hist, i) ==
    ClassCount(hist, { v \in DOMAIN hist : v <= i })
        * ClassCount(hist, { v \in DOMAIN hist : v > i })

SigmaLess(hist, i, j) ==
    FracLess(SigmaNum(hist, i), SigmaDen(hist, i),
             SigmaNum(hist, j), SigmaDen(hist, j))

\* The threshold cv2.THRESH_OTSU picks for a gray image: the first level i
\* whose split {<= i} / {> i} has the largest between-class variance, and 0
\* when no level splits the image (q1 or q2 is 0 at every level).  Only the
\* levels present in the image are tried: the variance changes at no other
\* level.
OtsuThreshold(gray) ==
    LET hist == Histogram(gray)
        Splits == { i \in DOMAIN hist : \E v \in DOMAIN hist : v > i }
    IN IF Splits = {} THEN 0
       ELSE CHOOSE i \in Splits :
                /\ \A j \in Splits : ~SigmaLess(hist, i, j)
                /\ \A j \in Splits : j < i => SigmaLess(hist, j, i)

\* cv2.threshold(gray, None, 255, cv2.THRESH_OTSU)[1]
Otsu(gray) ==
    LET t == OtsuThreshold(gray)
    IN [gray EXCEPT !.bg = Binary(gray.bg, t),
                    !.spots = { [s EXCEPT !.v = Binary(s.v, t)] :
                                  s \in gray.spots }]

SetMin(S) == CHOOSE m \in S : \A k \in S : m <= k

\* the whole image for the box of its non-zero pixels
boundingRectWhole(binary) == <<0, 0, binary.w, binary.h>>

\* cv2.boundingRect of a single-channel image: the box <<x, y, w, h>> of its
\* non-zero pixels, <<0, 0, 0, 0>> when there is none
boundingRect(binary) ==
    LET nz == { p \in Coords(binary) : pix(binary, p[1], p[2]) # 0 }
        xs == { p[1] : p \in nz }
        ys == { p[2] : p \in nz }
    IN IF nz = {} THEN <<0, 0, 0, 0>>
       ELSE << SetMin(xs), SetMin(ys),
               SetMax(xs) - SetMin(xs) + 1, SetMax(ys) - SetMin(ys) + 1 >>

\* cv2.copyMakeBorder(src, top, bottom, left, right, BORDER_CONSTANT, value):
\* the source framed by pixels of the given value
copyMakeBorder(src, top, bottom, left, right, value) ==
    [w |-> src.w + left + right, h |-> src.h + top + bottom,
     top |-> top, left |-> left, inner |-> src, value |-> value]

\* bordered[y, x]
bpix(b, x, y) ==
    IF /\ b.left <= x /\ x < b.left + b.inner.w
       /\ b.top <= y /\ y < b.top + b.inner.h
    THEN pix(b.inner, x - b.left, y - b.top)
    ELSE b.value

NoBorder == copyMakeBorder(EmptyImage, 0, 0, 0, 0, 0)

\* what image_to_string may hand back, as sequences of characters
Texts ==
    { <<>>, <<" ", "\n", "\f">>, <<" ", "1", " ", "2", "\n", "\f">> }

\* the characters str.strip() removes (those an OCR engine emits)
Whitespace == {" ", "\n", "\t", "\r", "\f"}

\* str.strip()
RECURSIVE lstrip(_)
lstrip(t) ==
    IF t # <<>> /\ Head(t) \in Whitespace THEN lstrip(Tail(t)) ELSE t

RECURSIVE rstrip(_)
rstrip(t) ==
    IF t # <<>> /\ t[Len(t)] \in Whitespace
    THEN rstrip(SubSeq(t, 1, Len(t) - 1)) ELSE t

strip(t) == rstrip(lstrip(t))

NoOcr ==
    [corners |-> None, warped |-> EmptyImage, gray_src |-> EmptyImage,
     binary |-> EmptyImage, rect |-> <<0, 0, 0, 0>>, cropped |-> EmptyImage,
     bordered |-> NoBorder, raw |-> <<>>, line |-> 0, raised |-> "",
     ret |-> None]

\* corners = find_screen(photo, Color.WHITE): the call has ended with the
\* frame `located`; its value is bound to corners, or its error propagates
ocr_ssd_locate(located) ==
    IF located.raised # ""
    THEN [NoOcr EXCEPT !.line = 171, !.raised = located.raised]
    ELSE [NoOcr EXCEPT !.line = 171, !.corners = located.ret]

\* lines 177 to 207 of ocr_ssd, applied to the image src: binarise, crop to
\* the text, add the border, read and strip
Preprocess(corners, warped, src, raw) ==
    LET gray == cvtColorGray(src)
        binary == Otsu(gray)
        rect == boundingRect(binary)
        x == rect[1]
        y == rect[2]
        w == rect[3]
        h == rect[4]
        cropped == Slice(binary, y, y + h, x, x + w)
        bordered == copyMakeBorder(cropped, border_width, border_width,
                                   border_width, border_width, 0)
    IN [NoOcr EXCEPT !.corners = corners, !.warped = warped,
                     !.gray_src = src, !.binary = binary, !.rect = rect,
                     !.cropped = cropped, !.bordered = bordered, !.raw = raw,
                     !.line = 207, !.ret = Some(strip(raw))]

\* ocr_ssd with the margin of check_screen trimmed before binarising
ocr_ssd_trimmed(corners, warped, raw) ==
    Preprocess(corners, warped, TrimMargin(warped), raw)

\* the rest of ocr_ssd (lines 172 to 207), given the image
\* four_point_transform rectifies and the text the OCR engine reads: the
\* rectified image goes to cv2.cvtColor as it is
ocr_ssd(corners, warped, raw) ==
    Preprocess(corners, warped, warped, raw)

(***************************************************************************)
(* The state machine.  Every call starts from the idle state with fresh    *)
(* arguments and ends in a state holding its frame; Return hands the       *)
(* outcome to the caller and drops the frame (no state survives a call).   *)
(***************************************************************************)
Init ==
    /\ pc = "idle"
    /\ op = "none"
    /\ fs = NoFrame
    /\ cs = NoScore
    /\ ocr = NoOcr

CallFindScreen ==
    /\ pc = "idle"
    /\ \E found \in ContourLists, color \in Color, strict \in BOOLEAN :
           fs' = find_screen(found, color, strict)
    /\ pc' = "done"
    /\ op' = "find_screen"
    /\ UNCHANGED <<cs, ocr>>

CallMainFindScreen ==
    /\ pc = "idle"
    /\ \E found \in ContourLists, color \in Color :
           fs' = main_find_screen(found, color)
    /\ pc' = "done"
    /\ op' = "main_find_screen"
    /\ UNCHANGED <<cs, ocr>>

CallCheckScreen ==
    /\ pc = "idle"
    /\ \E warped \in ScoreImages, color \in Color :
           cs' = check_screen(warped, color)
    /\ pc' = "done"
    /\ op' = "check_screen"
    /\ UNCHANGED <<fs, ocr>>

CallMainCheckScreen ==
    /\ pc = "idle"
    /\ \E warped \in ScoreImages, color \in Color :
           cs' = main_check_screen(warped, color)
    /\ pc' = "done"
    /\ op' = "main_check_screen"
    /\ UNCHANGED <<fs, ocr>>

\* ocr_ssd calls find_screen(photo, Color.WHITE)
OcrLocate ==
    /\ pc = "idle"
    /\ \E found \in ContourLists :
           fs' = find_screen(found, "WHITE", FALSE)
    /\ pc' = "ocr_locating"
    /\ op' = "ocr_ssd"
    /\ UNCHANGED <<cs, ocr>>

\* find_screen hands its outcome to ocr_ssd and its frame is gone
OcrLocated ==
    /\ pc = "ocr_locating"
    /\ ocr' = ocr_ssd_locate(fs)
    /\ fs' = NoFrame
    /\ pc' = IF fs.raised # "" THEN "done" ELSE "ocr_located"
    /\ UNCHANGED <<op, cs>>

\* the rest of ocr_ssd
OcrRead ==
    /\ pc = "ocr_located"
    /\ \E warped \in OcrImages, raw \in Texts :
           ocr' = ocr_ssd(ocr.corners, warped, raw)
    /\ pc' = "done"
    /\ UNCHANGED <<op, fs, cs>>

Return ==
    /\ pc = "done"
    /\ pc' = "idle"
    /\ op' = "none"
    /\ fs' = NoFrame
    /\ cs' = NoScore
    /\ ocr' = NoOcr

\* calls of find_screen
NextLocate ==
    \/ CallFindScreen
    \/ CallMainFindScreen
    \/ Return

\* calls of check_screen
NextScore ==
    \/ CallCheckScreen
    \/ CallMainCheckScreen
    \/ Return

\* calls of ocr_ssd
NextOcr ==
    \/ OcrLocate
    \/ OcrLocated
    \/ OcrRead
    \/ Return

Next ==
    \/ NextLocate
    \/ NextScore
    \/ NextOcr

Spec == Init /\ [][Next]_vars

SpecLocate == Init /\ [][NextLocate]_vars

SpecScore == Init /\ [][NextScore]_vars

SpecOcr == Init /\ [][NextOcr]_vars

(***************************************************************************)
(* Properties.                                                             *)
(***************************************************************************)
\* the contours of `found` above the noise floor, by index
Remaining(found) ==
    { i \in 1..Len(found) : found[i].area > 4 }

\* a call of find_screen (screen_checker.py) has ended
FindScreenDone == pc = "done" /\ op = "find_screen"

\* C1: find_screen called with color = BLACK always fails with
\* InvalidColorError, whatever the photo holds and whatever strict is; it
\* returns no corners and raises nothing else.  (Both find_screen of
\* screen_checker.py and of main.py.)
C1_BlackIsInvalidColor ==
    (/\ pc = "done"
     /\ op \in {"find_screen", "main_find_screen"}
     /\ fs.color = "BLACK")
        => (fs.raised = "InvalidColorError" /\ fs.ret = None)

\* a strict call for BLACK on a photo with several contours was refused
C1_Witness ==
    /\ FindScreenDone
    /\ fs.color = "BLACK"
    /\ fs.strict
    /\ Cardinality(Remaining(fs.found)) > 1
    /\ fs.raised = "InvalidColorError"

\* C2: for a non-BLACK colour, when more than one contour remains after the
\* noise filter (area > 4), strict mode fails with MultipleContoursError
\* and non-strict mode does not, but selects the remaining contour of
\* largest area; contours of area <= 4 never count towards the ambiguity,
\* so with at most one remaining contour MultipleContoursError is not raised.
C2_StrictAmbiguity ==
    (FindScreenDone /\ fs.color # "BLACK") =>
        LET R == Remaining(fs.found)
        IN /\ (Cardinality(R) > 1 /\ fs.strict)
                  => fs.raised = "MultipleContoursError"
           /\ (Cardinality(R) > 1 /\ ~fs.strict)
                  => /\ fs.raised # "MultipleContoursError"
                     /\ fs.screen_contour # None
                     /\ \E i \in R : fs.found[i] = fs.screen_contour[1]
                     /\ \A i \in R :
                            fs.found[i].area <= fs.screen_contour[1].area
           /\ Cardinality(R) <= 1
                  => fs.raised # "MultipleContoursError"

\* a non-strict call with two remaining contours selected the second, larger
C2_Witness ==
    /\ FindScreenDone
    /\ fs.color # "BLACK"
    /\ ~fs.strict
    /\ Len(fs.found) = 2
    /\ Cardinality(Remaining(fs.found)) = 2
    /\ fs.found[1].area < fs.found[2].area
    /\ fs.screen_contour = Some(fs.found[2])

\* C3: for a non-BLACK colour and a photo in which no contour remains after
\* extraction and noise filtering, find_screen fails with
\* ScreenNotFoundError and with no other error, and returns nothing.
C3_NoRegionIsScreenNotFound ==
    (/\ pc = "done"
     /\ op \in {"find_screen", "main_find_screen"}
     /\ fs.color # "BLACK"
     /\ fs.contours = Some(<<>>))
        => (fs.raised = "ScreenNotFoundError" /\ fs.ret = None)

\* the pixels of a rectified image that are at least 16 pixels from each side
Inside(img) == (16..(img.w - 17)) \X (16..(img.h - 17))

\* the distance of pixel p of img to the reference colour
Deviation(img, color, p) == delta_E(pix(img, p[1], p[2]), Expected(color))

\* img with every spot of the margin repainted with v
RepaintMargin(img, v) ==
    [img EXCEPT !.spots =
        { IF <<s.x, s.y>> \in Inside(img) THEN s ELSE [s EXCEPT !.v = v] :
            s \in img.spots }]

\* C4: the score check_screen returns is the maximum of the per-pixel
\* distances to the reference colour over exactly the pixels left after 16
\* pixels are trimmed from each side: at least the distance of each of them,
\* equal to the distance of one of them, non-negative, and the same
\* whatever the pixels of the margin are.
C4_ScoreIsMaxOverTrimmed ==
    (pc = "done" /\ op = "check_screen" /\ cs.ret # None) =>
        LET score == cs.ret[1]
        IN /\ \A p \in Inside(cs.warped) :
                  Deviation(cs.warped, cs.color, p) <= score
           /\ \E p \in Inside(cs.warped) :
                  Deviation(cs.warped, cs.color, p) = score
           /\ score >= 0
           /\ \A v \in Pixels :
                  check_screen(RepaintMargin(cs.warped, v), cs.color).ret
                      = cs.ret

\* a score was returned although a pixel of the margin deviates more
C4_Witness ==
    /\ pc = "done"
    /\ op = "check_screen"
    /\ cs.ret # None
    /\ \E s \in cs.warped.spots :
           /\ <<s.x, s.y>> \notin Inside(cs.warped)
           /\ delta_E(s.v, Expected(cs.color)) > cs.ret[1]

\* C5: check_screen has no failure of its own: for every rectified image of
\* at least one pixel, also one of 32 pixels or less in width or height, it
\* returns a score.
C5_ScoreNeverFails ==
    (/\ pc = "done"
     /\ op \in {"check_screen", "main_check_screen"}
     /\ cs.warped.w >= 1
     /\ cs.warped.h >= 1)
        => (cs.raised = "" /\ cs.ret # None)

\* ocr_ssd has returned
OcrReturned == pc = "done" /\ op = "ocr_ssd" /\ ocr.ret # None

\* C6 as stated: the image ocr_ssd converts to grayscale and binarises is
\* the rectified image with the 16-pixel margin trimmed, the image
\* check_screen scores for the same rectified screen.
C6_OcrUsesTrimmedImage ==
    OcrReturned
        => ocr.gray_src = check_screen(ocr.warped, "WHITE").cropped

\* C6 as amended: the image ocr_ssd converts to grayscale and binarises is
\* the whole four-point-transformed image, no margin trimmed: the binary
\* image has the size of the rectified one, and it is not the image
\* check_screen scores.
C6_OcrUsesWholeImage ==
    OcrReturned
        => /\ ocr.gray_src = ocr.warped
           /\ ocr.binary.w = ocr.warped.w
           /\ ocr.binary.h = ocr.warped.h
           /\ ocr.gray_src # check_screen(ocr.warped, "WHITE").cropped

\* the text box found reaches the rim of the rectified image
C6_Witness ==
    /\ OcrReturned
    /\ ocr.warped.w > 1
    /\ ocr.rect[1] = 0
    /\ ocr.rect[3] = ocr.warped.w

\* C7: ocr_ssd fails only when find_screen fails, and then with
\* ScreenNotFoundError; otherwise it returns the OCR engine's text with
\* leading and trailing whitespace removed.
C7_OcrFailsOnlyWithScreenNotFound ==
    (pc = "done" /\ op = "ocr_ssd") =>
        IF ocr.raised # ""
        THEN ocr.raised = "ScreenNotFoundError" /\ ocr.ret = None
        ELSE ocr.ret = Some(strip(ocr.raw))

Foreground(binary) ==
    { p \in Coords(binary) : pix(binary, p[1], p[2]) # 0 }

\* C9: the image handed to the OCR engine is the tight bounding box of the
\* foreground pixels of the binarised screen inside a border of exactly 10
\* black pixels: its sides are the box's plus 20, every pixel within 10
\* pixels of an edge is black, the inside is the binary image's box (so
\* every foreground pixel appears), and each outermost row and column of
\* the box holds a foreground pixel.
C9_OcrInputIsBorderedTightBox ==
    OcrReturned =>
        LET B == ocr.bordered
            FG == Foreground(ocr.binary)
            x0 == IF FG = {} THEN 0 ELSE SetMin({ p[1] : p \in FG })
            y0 == IF FG = {} THEN 0 ELSE SetMin({ p[2] : p \in FG })
            bw == IF FG = {} THEN 0 ELSE SetMax({ p[1] : p \in FG }) - x0 + 1
            bh == IF FG = {} THEN 0 ELSE SetMax({ p[2] : p \in FG }) - y0 + 1
        IN /\ B.w = bw + 20
           /\ B.h = bh + 20
           /\ \A x \in 0..(B.w - 1), y \in 0..(B.h - 1) :
                  (x < 10 \/ x >= B.w - 10 \/ y < 10 \/ y >= B.h - 10)
                      => bpix(B, x, y) = 0
           /\ \A p \in FG : bpix(B, p[1] - x0 + 10, p[2] - y0 + 10) # 0
           /\ \A i \in 0..(bw - 1), j \in 0..(bh - 1) :
                  bpix(B, 10 + i, 10 + j) = pix(ocr.binary, x0 + i, y0 + j)
           /\ FG # {} =>
                  /\ \E i \in 0..(bw - 1) : bpix(B, 10 + i, 10) # 0
                  /\ \E i \in 0..(bw - 1) : bpix(B, 10 + i, 10 + bh - 1) # 0
                  /\ \E j \in 0..(bh - 1) : bpix(B, 10, 10 + j) # 0
                  /\ \E j \in 0..(bh - 1) : bpix(B, 10 + bw - 1, 10 + j) # 0

\* two strokes on a dark display: the box is smaller than the image and
\* holds a background pixel
C9_Witness ==
    /\ OcrReturned
    /\ Cardinality(Foreground(ocr.binary)) = 2
    /\ ocr.rect[3] * ocr.rect[4] > 2
    /\ ocr.rect[3] * ocr.rect[4] < ocr.binary.w * ocr.binary.h

\* C10: find_screen detects its errors in a fixed order and each call has
\* one outcome: BLACK is refused before any image processing, also in
\* strict mode with many contours; strict mode with more than one remaining
\* contour fails with MultipleContoursError before a contour is selected
\* or approximated, whatever the largest contour approximates to; and
\* ScreenNotFoundError is raised only when both earlier checks have passed
\* and the approximation has been made.
C10_ErrorOrder ==
    FindScreenDone =>
        LET many == Cardinality(Remaining(fs.found)) > 1
        IN /\ fs.color = "BLACK" =>
                  /\ fs.raised = "InvalidColorError"
                  /\ fs.gray = ""
                  /\ fs.contours = None
                  /\ fs.approx = None
           /\ (fs.color # "BLACK" /\ fs.strict /\ many) =>
                  /\ fs.raised = "MultipleContoursError"
                  /\ fs.screen_contour = None
                  /\ fs.approx = None
           /\ fs.raised = "ScreenNotFoundError" =>
                  /\ fs.color # "BLACK"
                  /\ ~(fs.strict /\ many)
                  /\ fs.approx # None
           /\ (fs.raised = "") <=> (fs.ret # None)

\* strict mode refused two contours of which the larger is no quadrilateral
C10_Witness ==
    /\ FindScreenDone
    /\ fs.strict
    /\ fs.raised = "MultipleContoursError"
    /\ Len(fs.found) = 2
    /\ fs.found[1].area < fs.found[2].area
    /\ fs.found[1].area > 4
    /\ Len(fs.found[2].poly) # 4

====
